---- MODULE Spec2Model ----
(***************************************************************************)
(* Model of the code emitted by cornucopia's codegen (src/cornucopia/src/  *)
(* codegen.rs): the composite wire codec (struct_tosql, composite_fromsql) *)
(* and the per-query fluent builder (gen_row_structs, gen_query_fn).       *)
(***************************************************************************)
EXTENDS Integers, Sequences, FiniteSets

(***************************************************************************)
(* Bounds of the model.                                                    *)
(***************************************************************************)
\* Longest field list a runtime type descriptor reports.
MaxRtFields == 3
\* Most fields of a parameter shape.
MaxParams == 3
\* Most rows the server returns for one query.
MaxRows == 2
\* Most server-side prepares issued through one statement object.
MaxPrepares == 2

\* The longest parameter shape handed to the generator.
MaxGenFields == 2
MaxSqlLen == 3

(***************************************************************************)
(* Bytes and fixed-width integers.                                         *)
(***************************************************************************)
I32Max == 2147483647

\* The four big-endian bytes of a number 0 <= m <= i32::MAX.
BENat(m) ==
    << m \div 16777216, (m \div 65536) % 256, (m \div 256) % 256, m % 256 >>

\* i32::to_be_bytes / u32::to_be_bytes: two's complement, big endian.  A
\* negative n is the bitwise complement of -n-1.
ToBeBytes(n) ==
    IF n >= 0 THEN BENat(n)
    ELSE LET c == BENat(-n - 1)
         IN  << 255 - c[1], 255 - c[2], 255 - c[3], 255 - c[4] >>

\* i32::from_be_bytes of four bytes.
FromBeBytes(b) ==
    IF b[1] < 128
    THEN ((b[1] * 256 + b[2]) * 256 + b[3]) * 256 + b[4]
    ELSE -((((255 - b[1]) * 256 + (255 - b[2])) * 256 + (255 - b[3])) * 256
             + (255 - b[4])) - 1

\* postgres_types::private::read_be_i32(&mut buf): fails on fewer than four
\* bytes, otherwise yields the number and advances the cursor.
ReadBeI32(buf) ==
    IF Len(buf) < 4
    THEN [ok |-> FALSE, n |-> 0, rest |-> buf]
    ELSE [ok |-> TRUE, n |-> FromBeBytes(SubSeq(buf, 1, 4)),
          rest |-> SubSeq(buf, 5, Len(buf))]

\* A pseudo byte (no byte is 256) standing for a run of 2^31 bytes, more than
\* i32::MAX: the payload of a text too large to transmit.
HugeRun == 256

\* `len > i32::max_value() as usize` for the bytes of a payload.
TooLarge(payload) ==
    \/ \E i \in 1..Len(payload) : payload[i] = HugeRun
    \/ Len(payload) > I32Max

(***************************************************************************)
(* Field values and the field codecs of postgres_types the emitted code    *)
(* delegates to.  A value is NullVal (Option::None), an i32 or a text (a   *)
(* sequence of code points).                                               *)
(***************************************************************************)
NullVal == [k |-> "null", i |-> 0, s |-> <<>>]
IntVal(n) == [k |-> "int", i |-> n, s |-> <<>>]
TextVal(cps) == [k |-> "text", i |-> 0, s |-> cps]
\* A text of 2^31 one-byte characters.
HugeText == [k |-> "hugetext", i |-> 0, s |-> <<>>]

\* UTF-8 of one code point below 0x800.
Utf8Char(cp) ==
    IF cp < 128 THEN << cp >>
    ELSE << 192 + (cp \div 64), 128 + (cp % 64) >>

RECURSIVE Utf8Encode(_)
Utf8Encode(cps) ==
    IF cps = << >> THEN << >>
    ELSE Utf8Char(Head(cps)) \o Utf8Encode(Tail(cps))

\* str::from_utf8 over one- and two-byte sequences; anything else is invalid.
RECURSIVE Utf8Decode(_)
Utf8Decode(bytes) ==
    IF bytes = << >> THEN [ok |-> TRUE, s |-> << >>]
    ELSE IF bytes[1] < 128
    THEN LET r == Utf8Decode(Tail(bytes))
         IN  [ok |-> r.ok, s |-> << bytes[1] >> \o r.s]
    ELSE IF /\ bytes[1] >= 194 /\ bytes[1] <= 223 /\ Len(bytes) >= 2
            /\ bytes[2] >= 128 /\ bytes[2] <= 191
    THEN LET r == Utf8Decode(SubSeq(bytes, 3, Len(bytes)))
         IN  [ok |-> r.ok,
              s |-> << (bytes[1] - 192) * 64 + (bytes[2] - 128) >> \o r.s]
    ELSE [ok |-> FALSE, s |-> << >>]

\* Type::oid() of the two builtin types of the model.
Oid(type) == IF type = "int4" THEN 23 ELSE 25

\* ToSql::to_sql of a field value (i32, &str, Option<_>) appending to out.
FieldToSql(v, out) ==
    IF v.k = "null" THEN [isNull |-> TRUE, out |-> out]
    ELSE IF v.k = "int" THEN [isNull |-> FALSE, out |-> out \o ToBeBytes(v.i)]
    ELSE IF v.k = "hugetext" THEN [isNull |-> FALSE, out |-> out \o << HugeRun >>]
    ELSE [isNull |-> FALSE, out |-> out \o Utf8Encode(v.s)]

\* <T as ToSql>::accepts for the declared field type: i32 accepts INT4, a
\* string accepts TEXT.
FieldAccepts(declTy, rtType) == declTy = rtType

\* T::from_sql of the raw bytes, T chosen by the declared field type.
FieldFromSql(declTy, raw) ==
    IF declTy = "int4"
    THEN IF Len(raw) # 4 THEN [ok |-> FALSE, v |-> NullVal]
         ELSE [ok |-> TRUE, v |-> IntVal(FromBeBytes(raw))]
    ELSE LET r == Utf8Decode(raw)
         IN  [ok |-> r.ok, v |-> TextVal(r.s)]

\* postgres_types::private::read_value::<T>: the 4-byte length, then the
\* value; a negative length is NULL, which only Option<T> takes.
ReadValue(f, buf) ==
    LET l == ReadBeI32(buf)
        bad == [ok |-> FALSE, v |-> NullVal, rest |-> buf]
    IN  IF ~l.ok THEN bad
        ELSE IF l.n < 0
        THEN IF f.nullable THEN [ok |-> TRUE, v |-> NullVal, rest |-> l.rest]
             ELSE bad
        ELSE IF l.n > Len(l.rest) THEN bad
        ELSE LET r == FieldFromSql(f.ty, SubSeq(l.rest, 1, l.n))
             IN  [ok |-> r.ok, v |-> r.v,
                  rest |-> SubSeq(l.rest, l.n + 1, Len(l.rest))]

(***************************************************************************)
(* The composite types the codec is emitted for (PreparedField lists) and  *)
(* the runtime type descriptors (postgres_types::Type) it is called with.  *)
(***************************************************************************)
Field(n, t, nullable) == [name |-> n, ty |-> t, nullable |-> nullable]

\* The `name` struct_tosql and composite_fromsql are emitted with.
SourceName == "custom_composite"

DeclTypes ==
    { << Field("a", "int4", FALSE), Field("b", "text", TRUE) >>,
      << Field("a", "int4", TRUE), Field("b", "int4", FALSE),
         Field("c", "text", FALSE) >> }

\* The values of one field: what its Rust type (i32, String, Option<_>) holds.
FieldVals(f) ==
    (IF f.ty = "int4"
     THEN IF f.nullable THEN { IntVal(42) } ELSE { IntVal(42), IntVal(-2) }
     ELSE IF f.nullable THEN { TextVal(<< 104, 233 >>) }
          ELSE { TextVal(<< 104, 233 >>), HugeText })
    \cup (IF f.nullable THEN { NullVal } ELSE { })

\* The values of the struct emitted for decl.
StructVals(decl) ==
    { v \in [1..Len(decl) -> UNION { FieldVals(decl[i]) : i \in 1..Len(decl) }] :
        \A i \in 1..Len(decl) : v[i] \in FieldVals(decl[i]) }

RtNames == { "a", "b", "c", "z" }
RtTypes == { "int4", "text" }
RtField == [name : RtNames, type : RtTypes]

\* Kind::Composite(fields) with up to MaxRtFields fields, or another kind.
Descriptors ==
    { [name |-> n, kind |-> "Composite", fields |-> fs] :
        n \in { SourceName, "other" },
        fs \in UNION { [1..k -> RtField] : k \in 0..MaxRtFields } }
    \cup { [name |-> n, kind |-> "Simple", fields |-> << >>] :
             n \in { SourceName, "other" } }

(***************************************************************************)
(* struct_tosql: the emitted to_sql.                                       *)
(***************************************************************************)
\* `match field.name() { "a" => .., "b" => .., _ => .. }`: the index of the
\* arm that matches, 0 for the wildcard arm.
MatchArm(decl, n) ==
    IF \E k \in 1..Len(decl) : decl[k].name = n
    THEN CHOOSE k \in 1..Len(decl) : decl[k].name = n
    ELSE 0

\* Mutant of LengthMarker: a null field is written as an empty value.
LengthMarkerNullAsEmpty(isNull, len) == IF isNull THEN 0 ELSE len

\* `match r? { IsNull::Yes => -1, IsNull::No => len as i32 }`
LengthMarker(isNull, len) == IF isNull THEN -1 ELSE len

\* Mutant of Backfill: the length lands on the type oid, four bytes early.
BackfillOverOid(out, base, count) ==
    [i \in 1..Len(out) |->
        IF i > base - 4 /\ i <= base THEN ToBeBytes(count)[i - base + 4]
        ELSE out[i]]

\* `out[base..base + 4].copy_from_slice(&count.to_be_bytes())`
Backfill(out, base, count) ==
    [i \in 1..Len(out) |->
        IF i > base /\ i <= base + 4 THEN ToBeBytes(count)[i - base] ELSE out[i]]

\* One pass of `for field in fields`.
ToSqlField(decl, v, field, out) ==
    LET o1 == out \o ToBeBytes(Oid(field.type))
        base == Len(o1)
        o2 == o1 \o << 0, 0, 0, 0 >>
        k == MatchArm(decl, field.name)
    IN  IF k = 0 THEN [st |-> "Abort", out |-> o2]
        ELSE LET r == FieldToSql(v[k], o2)
                 payload == SubSeq(r.out, base + 5, Len(r.out))
             IN  IF ~r.isNull /\ TooLarge(payload)
                 THEN [st |-> "Err", out |-> r.out]
                 ELSE [st |-> "Ok",
                       out |-> Backfill(r.out, base,
                                        LengthMarker(r.isNull, Len(payload)))]

RECURSIVE ToSqlFields(_, _, _, _)
ToSqlFields(decl, v, fields, out) ==
    IF fields = << >> THEN [st |-> "Ok", out |-> out]
    ELSE LET r == ToSqlField(decl, v, Head(fields), out)
         IN  IF r.st # "Ok" THEN r
             ELSE ToSqlFields(decl, v, Tail(fields), r.out)

\* to_sql(&self, ty, out): Ok(IsNull::No), Err, or a panic ("Abort").
to_sql(decl, v, t, out) ==
    IF t.kind # "Composite" THEN [st |-> "Abort", out |-> out]
    ELSE ToSqlFields(decl, v, t.fields, out \o ToBeBytes(Len(t.fields)))

\* Mutant of accepts: the name, the kind and the number of fields only.
AcceptsByCount(decl, t) ==
    /\ t.name = SourceName
    /\ t.kind = "Composite"
    /\ Len(t.fields) = Len(decl)

\* accepts(ty) of the ToSql implementation.
accepts(decl, t) ==
    IF t.name # SourceName THEN FALSE
    ELSE IF t.kind = "Composite"
    THEN IF Len(t.fields) # Len(decl) THEN FALSE
         ELSE \A i \in 1..Len(t.fields) :
                LET k == MatchArm(decl, t.fields[i].name)
                IN  IF k = 0 THEN FALSE
                    ELSE FieldAccepts(decl[k].ty, t.fields[i].type)
    ELSE FALSE

(***************************************************************************)
(* composite_fromsql: the emitted from_sql.                                *)
(***************************************************************************)
\* `num_fields as usize != fields.len()`: a negative i32 casts to a usize
\* above every length.
FieldCountDiffers(num_fields, fields) ==
    num_fields < 0 \/ num_fields # Len(fields)

\* The unrolled reads, one per declared field, in declared order.  `read` is
\* the borrowed struct so far.
RECURSIVE FromSqlFields(_, _, _, _, _)
FromSqlFields(decl, fields, idx, buf, read) ==
    IF idx > Len(decl) THEN [st |-> "Ok", v |-> read]
    ELSE LET oid == ReadBeI32(buf)
         IN  IF ~oid.ok THEN [st |-> "Err", v |-> read]
             ELSE IF idx > Len(fields) THEN [st |-> "Abort", v |-> read]
             ELSE LET r == ReadValue(decl[idx], oid.rest)
                  IN  IF ~r.ok THEN [st |-> "Err", v |-> read]
                      ELSE FromSqlFields(decl, fields, idx + 1, r.rest,
                                         Append(read, r.v))

\* from_sql(ty, out): Ok(struct), Err, or a panic ("Abort"); v holds the
\* fields read when it ended.
from_sql(decl, t, buf) ==
    IF t.kind # "Composite" THEN [st |-> "Abort", v |-> << >>]
    ELSE LET c == ReadBeI32(buf)
         IN  IF ~c.ok THEN [st |-> "Err", v |-> << >>]
             ELSE IF FieldCountDiffers(c.n, t.fields)
             THEN [st |-> "Err", v |-> << >>]
             ELSE FromSqlFields(decl, t.fields, 1, c.rest, << >>)

(***************************************************************************)
(* State of a codec run: one emitted composite type, one runtime type      *)
(* descriptor, and the calls made with them.                               *)
(***************************************************************************)
VARIABLES
    decl,      \* the fields the codec was emitted for
    ty,        \* the runtime descriptor the calls are given
    val,       \* `self` of the last to_sql call
    pre,       \* the output buffer before the to_sql call
    out,       \* the output buffer
    toRes,     \* how to_sql ended
    accRes,    \* what accepts(ty) returned
    wire,      \* the bytes handed to from_sql
    fromRes,   \* how from_sql ended, and the fields it read
    pc,        \* the calls made so far
    \* --- one emitted query and its use ---
    hasRow,    \* the query has a row shape (bind returns a builder)
    sqlFields, \* the declared parameter field each $p of the SQL text names
    order,     \* the field-reordering table of the PreparedQuery
    stmt,      \* the statement object: its identity and its cache cell
    issued,    \* server-side prepares issued through this statement object
    query,     \* the builder returned by bind / map
    terminals, \* terminal operations applied to the builder of the last bind
    stream,    \* the sequence returned by iter
    io,        \* the requests the last operation sent to the server
    result,    \* what the last operation returned
    answer,    \* what the server answered to the last query sent
    lastOp,    \* the last operation of the emitted code that ran
    \* --- one run of the generator ---
    ir,        \* the Preparation handed to generate
    emitted,   \* the items written so far, for each execution mode
    stage,     \* how far generate has come, for each execution mode
    cli        \* the run of the command line: arguments, config file, outcome

codecVars == << decl, ty, val, pre, out, toRes, accRes, wire, fromRes, pc >>
queryVars == << hasRow, sqlFields, order, stmt, issued, query, terminals,
                stream, io, result, answer, lastOp >>
genVars == << ir, emitted, stage, cli >>
vars == << codecVars, queryVars, genVars >>

NoFrom == [st |-> "none", v |-> << >>]
NoStmt == [live |-> FALSE, cached |-> FALSE]
NoQuery == [live |-> FALSE, params |-> << >>, mapper |-> "none", given |-> << >>]
NoStream ==
    [live |-> FALSE, rest |-> << >>, failing |-> FALSE, mapper |-> "none",
     yielded |-> << >>, at |-> 0, failedAt |-> 0]
NoResult == [st |-> "none", v |-> << >>, err |-> "none", mapped |-> << >>]
NoAnswer == [refused |-> FALSE, rows |-> << >>, failing |-> FALSE]

\* No call of the codec has been made.
CodecFresh ==
    /\ val = << >>
    /\ pre = << >>
    /\ out = << >>
    /\ toRes = "none"
    /\ accRes = "none"
    /\ wire = << >>
    /\ fromRes = NoFrom
    /\ pc = "start"

\* No statement object exists and the server has seen nothing.
QueryFresh ==
    /\ stmt = NoStmt
    /\ issued = 0
    /\ query = NoQuery
    /\ terminals = 0
    /\ stream = NoStream
    /\ io = { }
    /\ result = NoResult
    /\ answer = NoAnswer
    /\ lastOp = "none"

NoIr == [types |-> << >>, modules |-> << >>]
NoItems == [types |-> << >>, params |-> << >>, rows |-> << >>, queries |-> << >>]
NoCli == [pc |-> "none"]

\* No run of the generator or of the command line.
GenIdle ==
    /\ ir = NoIr
    /\ emitted = [is_async \in BOOLEAN |-> NoItems]
    /\ stage = [is_async \in BOOLEAN |-> "idle"]
    /\ cli = NoCli

\* A codec run: a composite type and a descriptor, no query in use.
InitCodec ==
    /\ decl \in DeclTypes
    /\ ty \in Descriptors
    /\ CodecFresh
    /\ hasRow = TRUE
    /\ sqlFields = << >>
    /\ order = << >>
    /\ QueryFresh
    /\ GenIdle

\* A call of accepts(ty).
Accepts ==
    /\ pc = "start"
    /\ accRes' = IF accepts(decl, ty) THEN "true" ELSE "false"
    /\ pc' = "accepted"
    /\ UNCHANGED << decl, ty, val, pre, out, toRes, wire, fromRes >>
    /\ UNCHANGED << queryVars, genVars >>

\* A call of to_sql(&self, ty, out) on a buffer that may hold earlier bytes:
\* made directly, or after accepts(ty) returned true, as to_sql_checked
\* makes it.
ToSql ==
    /\ \/ pc = "start"
       \/ pc = "accepted" /\ accRes = "true"
    /\ \E v \in StructVals(decl), before \in { << >>, << 7 >> } :
         LET r == to_sql(decl, v, ty, before)
         IN  /\ val' = v
             /\ pre' = before
             /\ out' = r.out
             /\ toRes' = r.st
             /\ wire' = IF r.st = "Ok"
                        THEN SubSeq(r.out, Len(before) + 1, Len(r.out))
                        ELSE << >>
    /\ pc' = "encoded"
    /\ UNCHANGED << decl, ty, accRes, fromRes >>
    /\ UNCHANGED << queryVars, genVars >>

\* The server sends count n and m records (oid of int4, length 4, 42)
\* for a value of type ty.
Receive ==
    /\ pc = "start"
    /\ \E n \in { Len(ty.fields), Len(decl) }, m \in { Len(ty.fields), Len(decl) } :
         wire' = ToBeBytes(n)
                 \o [i \in 1..(12 * m) |->
                       (ToBeBytes(23) \o ToBeBytes(4) \o ToBeBytes(42))[((i - 1) % 12) + 1]]
    /\ pc' = "received"
    /\ UNCHANGED << decl, ty, val, pre, out, toRes, accRes, fromRes >>
    /\ UNCHANGED << queryVars, genVars >>

\* A call of from_sql(ty, wire), on the bytes to_sql produced or on the
\* bytes received.
FromSql ==
    /\ \/ pc = "encoded" /\ toRes = "Ok"
       \/ pc = "received"
    /\ fromRes' = from_sql(decl, ty, wire)
    /\ pc' = IF pc = "encoded" THEN "roundtrip" ELSE "decoded"
    /\ UNCHANGED << decl, ty, val, pre, out, toRes, accRes, wire >>
    /\ UNCHANGED << queryVars, genVars >>

NextCodec == Accepts \/ ToSql \/ Receive \/ FromSql

SpecCodec == InitCodec /\ [][NextCodec]_vars

(***************************************************************************)
(* Properties of the codec.                                                *)
(***************************************************************************)
DeclNames(d) == { d[k].name : k \in 1..Len(d) }

\* The declared field a runtime field of that name stands for.
DeclOf(d, n) == CHOOSE k \in 1..Len(d) : d[k].name = n

\* t reports exactly the declared fields, each once, with their declared
\* types, in some order.
ReportsDeclaredFields(d, t) ==
    /\ t.kind = "Composite"
    /\ Len(t.fields) = Len(d)
    /\ \A k \in 1..Len(d) :
         Cardinality({ i \in 1..Len(t.fields) : t.fields[i].name = d[k].name }) = 1
    /\ \A i \in 1..Len(t.fields) :
         /\ t.fields[i].name \in DeclNames(d)
         /\ t.fields[i].type = d[DeclOf(d, t.fields[i].name)].ty

\* t reports the fields in an order other than the declared one.
Reordered(d, t) ==
    \E i \in 1..Len(t.fields) : i > Len(d) \/ t.fields[i].name # d[i].name

\* C1: encoding a value against a descriptor that reports the declared
\* fields in any order and decoding the bytes against the same descriptor
\* gives back the value, field by field.
RoundTripAnyOrder ==
    (pc = "roundtrip" /\ ReportsDeclaredFields(decl, ty))
        => (fromRes.st = "Ok" /\ fromRes.v = val)

\* C2: accepts(ty) is true exactly when ty has the source name, is a
\* composite and reports the declared field set (each declared name once, no
\* other name) with every field's type accepted by the declared type.
AcceptsIffFieldSetMatches ==
    pc = "accepted"
        => (accRes = "true"
              <=> (ty.name = SourceName /\ ReportsDeclaredFields(decl, ty)))

\* C18: once accepts(ty) has returned true, ty is a composite whose every
\* reported name is a declared one, and a to_sql(ty) that follows, on any
\* value, ends with Ok or Err and not in an unreachable!() branch.
AcceptsGuardsToSql ==
    accRes = "true"
        => /\ ty.kind = "Composite"
           /\ \A i \in 1..Len(ty.fields) : ty.fields[i].name \in DeclNames(decl)
           /\ pc \in { "encoded", "roundtrip" } => toRes \in { "Ok", "Err" }

\* Witness of C18: to_sql after accepts let through a descriptor that names
\* one declared field twice.
AcceptsGuardsToSqlWitness ==
    /\ accRes = "true" /\ pc = "encoded" /\ toRes = "Ok"
    /\ ~ReportsDeclaredFields(decl, ty)

\* The field count at the head of the wire bytes.
WireCount == ReadBeI32(wire).n

\* C3: from_sql on a composite descriptor ends with an error, no field read,
\* whenever the count on the wire differs from the declared field count.
CountMismatchFailsFirst ==
    (/\ pc \in { "roundtrip", "decoded" }
     /\ ty.kind = "Composite"
     /\ Len(wire) >= 4
     /\ WireCount # Len(decl))
        => (fromRes.st = "Err" /\ fromRes.v = << >>)

\* C4: to_sql and from_sql end with Ok or Err for every descriptor and every
\* input, never with a panic.
NeverAborts ==
    /\ pc = "encoded" => toRes \in { "Ok", "Err" }
    /\ pc \in { "roundtrip", "decoded" } => fromRes.st \in { "Ok", "Err" }

\* The record of the wire format for one runtime field: type oid, length
\* (-1 for null), payload.
ExpectedRecord(d, v, field) ==
    LET p == FieldToSql(v[DeclOf(d, field.name)], << >>)
    IN  ToBeBytes(Oid(field.type))
        \o (IF p.isNull THEN ToBeBytes(-1)
            ELSE ToBeBytes(Len(p.out)) \o p.out)

RECURSIVE ExpectedRecords(_, _, _)
ExpectedRecords(d, v, fields) ==
    IF fields = << >> THEN << >>
    ELSE ExpectedRecord(d, v, Head(fields)) \o ExpectedRecords(d, v, Tail(fields))

\* C5: after a successful to_sql the buffer is the bytes it held before, the
\* 4-byte count of the runtime fields, and one record (oid, length, payload)
\* per runtime field in reported order.
WireLayout ==
    (pc = "encoded" /\ toRes = "Ok")
        => out = pre \o ToBeBytes(Len(ty.fields))
                     \o ExpectedRecords(decl, val, ty.fields)

\* Witness of C5: a successful to_sql after earlier bytes, on a descriptor
\* that reports the fields out of declared order, one of them null.
WireLayoutWitness ==
    /\ pc = "encoded" /\ toRes = "Ok"
    /\ pre # << >>
    /\ Len(ty.fields) >= 2
    /\ Reordered(decl, ty)
    /\ \E k \in 1..Len(decl) : val[k] = NullVal
    /\ \E k \in 1..Len(decl) : val[k].k = "text"

\* The records of a composite value on the wire, split by their length
\* fields: each << oid, length, payload >>.  ok is false when the bytes are
\* not a whole number of records.
RECURSIVE SplitRecords(_)
SplitRecords(bytes) ==
    IF bytes = << >> THEN [ok |-> TRUE, recs |-> << >>]
    ELSE IF Len(bytes) < 8 THEN [ok |-> FALSE, recs |-> << >>]
    ELSE LET oid == FromBeBytes(SubSeq(bytes, 1, 4))
             len == FromBeBytes(SubSeq(bytes, 5, 8))
             n == IF len < 0 THEN 0 ELSE len
         IN  IF 8 + n > Len(bytes) THEN [ok |-> FALSE, recs |-> << >>]
             ELSE LET r == SplitRecords(SubSeq(bytes, 9 + n, Len(bytes)))
                  IN  [ok |-> r.ok,
                       recs |-> << << oid, len, SubSeq(bytes, 9, 8 + n) >> >>
                                \o r.recs]

\* C6: in the bytes of a successful to_sql the record of every field whose
\* value is null has length -1 and no payload, the next record starting
\* right after it; the field's decoder reads that record as the empty
\* Option and leaves nothing over.
NullEncoding ==
    (pc = "encoded" /\ toRes = "Ok")
        => LET r == SplitRecords(SubSeq(wire, 5, Len(wire)))
           IN  /\ r.ok
               /\ Len(r.recs) = Len(ty.fields)
               /\ \A i \in 1..Len(ty.fields) :
                    LET k == DeclOf(decl, ty.fields[i].name)
                    IN  val[k] = NullVal
                          => /\ r.recs[i][2] = -1
                             /\ r.recs[i][3] = << >>
                             /\ ReadValue(decl[k], ToBeBytes(r.recs[i][2]))
                                  = [ok |-> TRUE, v |-> NullVal, rest |-> << >>]

\* Witness of C6: a successful to_sql of a value with a null field that is
\* not the last one reported.
NullEncodingWitness ==
    /\ pc = "encoded" /\ toRes = "Ok"
    /\ \E i \in 1..Len(ty.fields) :
         /\ i < Len(ty.fields)
         /\ val[DeclOf(decl, ty.fields[i].name)] = NullVal

(***************************************************************************)
(* The emitted query: statement object, bind, map and the terminal         *)
(* operations (gen_query_fn, gen_row_structs).                             *)
(***************************************************************************)
Perms(n) ==
    { f \in [1..n -> 1..n] : \A i, j \in 1..n : f[i] = f[j] => i = j }

\* The field-reordering table the IR hands over with a query: for each
\* declared field, the SQL position that names it.
PrepareOrder(sq) ==
    [f \in 1..Len(sq) |-> CHOOSE p \in 1..Len(sq) : sq[p] = f]

\* The values a caller gives the n declared fields, a different one each.
Givens(n) == { [f \in 1..n |-> 10 * f], [f \in 1..n |-> 10 * (n + 1 - f)] }

RowIds == { 1, 2 }

\* A row with a column that does not convert to its field's type (a NULL in
\* a column the row shape holds non-null): `row.get(idx)` panics on it.
BadRow == 0
Converts(row) == row # BadRow

\* What the server answers to a query: it refuses it, or it streams rows and
\* ends the stream cleanly or with an error.
Responses ==
    { [refused |-> TRUE, rows |-> << >>, failing |-> FALSE] }
    \cup { [refused |-> FALSE, rows |-> rs, failing |-> fl] :
             rs \in UNION { [1..k -> RowIds \cup { BadRow }] : k \in 0..MaxRows },
             fl \in BOOLEAN }

\* `params_name`: the declared field each positional parameter of bind is
\* named after, and each argument Params::params passes.
params_name(ord) == [i \in 1..Len(ord) |-> ord[i]]

\* `params: [#(#params_name2),*]` for a caller that gives declared field f
\* the value given[f].
BindParams(ord, given) ==
    [i \in 1..Len(ord) |-> given[params_name(ord)[i]]]

\* extractor and mapper applied to a row: `(self.mapper)((self.extractor)(&row))`.
extractor(row) == [brw |-> row]
mapper(m, it) == [by |-> m, of |-> it.brw]
MapRows(m, rows) == [i \in 1..Len(rows) |-> mapper(m, extractor(rows[i]))]

\* Stmt::prepare(client) of the runtime helper: the cached handle when there
\* is one, else a server-side prepare whose handle is cached on success.
StmtPrepare(s, iss, succeeds) ==
    IF s.cached THEN [ok |-> TRUE, stmt |-> s, io |-> { }, issued |-> iss]
    ELSE [ok |-> succeeds,
          stmt |-> [s EXCEPT !.cached = succeeds],
          io |-> { "prepare" },
          issued |-> iss + 1]

\* client.prepare(sql) with no cache cell, as the free functions of
\* examples/basic do on every call.
ClientPrepare(s, iss, succeeds) ==
    [ok |-> succeeds, stmt |-> s, io |-> { "prepare" }, issued |-> iss + 1]

\* The prepare can be tried: the handle is cached, or the run has prepares
\* left.
CanPrepare == stmt.cached \/ issued < MaxPrepares

\* The requests of a query whose rows are read before the call returns.
Fetched(resp) ==
    { "execute" } \cup (IF resp.rows # << >> THEN { "fetch" } ELSE { })

DbError == [st |-> "Err", v |-> << >>, err |-> "db", mapped |-> << >>]
RowCount == [st |-> "Err", v |-> << >>, err |-> "row_count", mapped |-> << >>]
PrepareFailed == [st |-> "Err", v |-> << >>, err |-> "prepare", mapped |-> << >>]

\* The panic of `row.get` in the extractor: the call does not return.
Panicked == [st |-> "Abort", v |-> << >>, err |-> "panic", mapped |-> << >>]

\* `Ok((self.mapper)((self.extractor)(&row)))` for the rows a query call
\* returned (one row, or none for the empty Option).
Mapped(m, rows) ==
    IF \E i \in 1..Len(rows) : ~Converts(rows[i]) THEN Panicked
    ELSE [st |-> "Ok", v |-> MapRows(m, rows), err |-> "none", mapped |-> rows]

\* client.query_one, then the mapper: the first row is read, then the stream
\* is asked for one more; exactly one row, else an error.
query_one(m, resp) ==
    IF resp.refused THEN DbError
    ELSE IF resp.rows = << >>
         THEN (IF resp.failing THEN DbError ELSE RowCount)
    ELSE IF Len(resp.rows) > 1 THEN RowCount
    ELSE IF resp.failing THEN DbError
    ELSE Mapped(m, resp.rows)

\* Mutant of query_opt: the first row of the answer, whatever follows it.
query_opt_first(m, resp) ==
    IF resp.refused THEN DbError
    ELSE IF resp.rows = << >>
         THEN (IF resp.failing THEN DbError ELSE Mapped(m, << >>))
    ELSE Mapped(m, << Head(resp.rows) >>)

\* client.query_opt, then the mapper: no row or one row, else an error.
query_opt(m, resp) ==
    IF resp.refused THEN DbError
    ELSE IF resp.rows = << >>
         THEN (IF resp.failing THEN DbError ELSE Mapped(m, << >>))
    ELSE IF Len(resp.rows) > 1 THEN RowCount
    ELSE IF resp.failing THEN DbError
    ELSE Mapped(m, resp.rows)

\* Mutant of RowStream: the sequence starts after the first row.
RowStreamSkippingFirst(m, resp) ==
    [live |-> TRUE,
     rest |-> IF resp.rows = << >> THEN << >> ELSE Tail(resp.rows),
     failing |-> resp.failing, mapper |-> m,
     yielded |-> << >>, at |-> 0, failedAt |-> 0]

\* The sequence iter returns over the rows of an answer:
\* `query_raw(..).map(|res| res.map(|row| mapper(extractor(&row))))`.
RowStream(m, resp) ==
    [live |-> TRUE, rest |-> resp.rows, failing |-> resp.failing, mapper |-> m,
     yielded |-> << >>, at |-> 0, failedAt |-> 0]

\* One pull on that sequence: the next row extracted and mapped, the panic
\* of the extractor on a row that does not convert, the error that ends the
\* rows, or nothing once the rows are exhausted.
Pull(s) ==
    IF s.rest # << >>
    THEN LET row == Head(s.rest)
         IN  IF Converts(row)
             THEN [res |-> [st |-> "Some",
                            v |-> << mapper(s.mapper, extractor(row)) >>,
                            err |-> "none", mapped |-> << row >>],
                   stream |-> [s EXCEPT !.rest = Tail(@), !.at = @ + 1,
                                        !.yielded = Append(@, mapper(s.mapper,
                                                        extractor(row)))]]
             ELSE [res |-> Panicked,
                   stream |-> [s EXCEPT !.rest = Tail(@), !.at = @ + 1,
                                        !.failedAt = s.at + 1]]
    ELSE IF s.failing
    THEN [res |-> DbError, stream |-> [s EXCEPT !.failing = FALSE]]
    ELSE [res |-> [st |-> "End", v |-> << >>, err |-> "none", mapped |-> << >>],
          stream |-> s]

\* collect() / try_collect() over the sequence: every element in the order
\* pulled, or the first error.
RECURSIVE Drain(_, _)
Drain(s, acc) ==
    LET p == Pull(s)
    IN  IF p.res.st = "Some"
        THEN Drain(p.stream, [acc EXCEPT !.v = @ \o p.res.v,
                                         !.mapped = @ \o p.res.mapped])
        ELSE IF p.res.st = "End" THEN acc
        ELSE [p.res EXCEPT !.mapped = acc.mapped]

\* iter() then collect: every row, or the first error.
collect(m, resp) ==
    IF resp.refused THEN DbError
    ELSE Drain(RowStream(m, resp),
               [st |-> "Ok", v |-> << >>, err |-> "none", mapped |-> << >>])

\* A query in use: the SQL text's parameter order and the table made of it.
InitQuery ==
    /\ decl = << >>
    /\ ty = [name |-> SourceName, kind |-> "Simple", fields |-> << >>]
    /\ CodecFresh
    /\ hasRow \in BOOLEAN
    /\ \E n \in 1..MaxParams : sqlFields \in Perms(n)
    /\ order = PrepareOrder(sqlFields)
    /\ QueryFresh
    /\ GenIdle

\* `pub fn name() -> NameStmt`: a new statement object; the one in use, its
\* builder and its stream are dropped.
NewStmt ==
    /\ stmt' = [live |-> TRUE, cached |-> FALSE]
    /\ issued' = 0
    /\ query' = NoQuery
    /\ terminals' = 0
    /\ stream' = NoStream
    /\ io' = { }
    /\ result' = NoResult
    /\ answer' = NoAnswer
    /\ lastOp' = "new"
    /\ UNCHANGED << hasRow, sqlFields, order >>
    /\ UNCHANGED << codecVars, genVars >>

\* What bind of a query with a row shape does, for either caller: a new
\* builder over the statement object, replacing the one borrowed before.
BindQuery(op, given) ==
    /\ query' = [live |-> TRUE, params |-> BindParams(order, given),
                 mapper |-> "from", given |-> given]
    /\ terminals' = 0
    /\ stream' = NoStream
    /\ io' = { }
    /\ result' = NoResult
    /\ answer' = NoAnswer
    /\ lastOp' = op
    /\ UNCHANGED << hasRow, sqlFields, order, stmt, issued >>
    /\ UNCHANGED << codecVars, genVars >>

\* What bind of a query with no row shape does: prepare, then execute.
BindExecute(op, given) ==
    /\ CanPrepare
    /\ \E succeeds \in BOOLEAN, refused \in BOOLEAN :
         LET pr == StmtPrepare(stmt, issued, succeeds)
         IN  /\ stmt' = pr.stmt
             /\ issued' = pr.issued
             /\ io' = pr.io \cup (IF pr.ok THEN { "execute" } ELSE { })
             /\ result' = IF ~pr.ok THEN PrepareFailed
                          ELSE IF refused THEN DbError
                          ELSE [st |-> "Ok", v |-> << >>, err |-> "none",
                                mapped |-> << >>]
    /\ query' = [live |-> FALSE, params |-> BindParams(order, given),
                 mapper |-> "none", given |-> given]
    /\ answer' = NoAnswer
    /\ lastOp' = op
    /\ UNCHANGED << hasRow, sqlFields, order, terminals, stream >>
    /\ UNCHANGED << codecVars, genVars >>

\* Mutant of Bind: bind prepares the statement before it returns the builder.
BindPreparing ==
    /\ stmt.live /\ hasRow /\ CanPrepare
    /\ \E given \in Givens(Len(order)), succeeds \in BOOLEAN :
         LET pr == StmtPrepare(stmt, issued, succeeds)
         IN  /\ stmt' = pr.stmt
             /\ issued' = pr.issued
             /\ io' = pr.io
             /\ query' = [live |-> TRUE, params |-> BindParams(order, given),
                          mapper |-> "from", given |-> given]
    /\ terminals' = 0
    /\ stream' = NoStream
    /\ result' = NoResult
    /\ answer' = NoAnswer
    /\ lastOp' = "bind"
    /\ UNCHANGED << hasRow, sqlFields, order >>
    /\ UNCHANGED << codecVars, genVars >>

\* bind(client, args...) called with one value per declared field.
Bind ==
    /\ stmt.live
    /\ \E given \in Givens(Len(order)) :
         IF hasRow THEN BindQuery("bind", given) ELSE BindExecute("bind", given)

\* Params::params(client, &params_struct): bind with the struct's fields.
Params ==
    /\ stmt.live
    /\ \E given \in Givens(Len(order)) :
         IF hasRow THEN BindQuery("params", given)
         ELSE BindExecute("params", given)

\* map(self, mapper): the builder with another mapper.
Map ==
    /\ query.live
    /\ query' = [query EXCEPT !.mapper = "f"]
    /\ io' = { }
    /\ result' = NoResult
    /\ answer' = NoAnswer
    /\ lastOp' = "map"
    /\ UNCHANGED << hasRow, sqlFields, order, stmt, issued, terminals, stream >>
    /\ UNCHANGED << codecVars, genVars >>

\* A terminal operation that reads its rows before it returns: prepare, then
\* the query and what the operation makes of the answer.  `consumes` is
\* whether the operation takes the builder by value.
Terminal(op, pr, resp, res, consumes) ==
    /\ stmt' = pr.stmt
    /\ issued' = pr.issued
    /\ io' = pr.io \cup (IF pr.ok THEN Fetched(resp) ELSE { })
    /\ result' = IF pr.ok THEN res ELSE PrepareFailed
    /\ answer' = IF pr.ok THEN resp ELSE NoAnswer
    /\ query' = IF consumes THEN [query EXCEPT !.live = FALSE] ELSE query
    /\ terminals' = terminals + 1
    /\ stream' = NoStream
    /\ lastOp' = op
    /\ UNCHANGED << hasRow, sqlFields, order >>
    /\ UNCHANGED << codecVars, genVars >>

\* Mutant of One: one(&self) leaves the builder usable.
OneBorrowing ==
    /\ query.live /\ CanPrepare
    /\ \E succeeds \in BOOLEAN, resp \in Responses :
         Terminal("one", StmtPrepare(stmt, issued, succeeds), resp,
                  query_one(query.mapper, resp), FALSE)

\* one(self)
One ==
    /\ query.live /\ CanPrepare
    /\ \E succeeds \in BOOLEAN, resp \in Responses :
         Terminal("one", StmtPrepare(stmt, issued, succeeds), resp,
                  query_one(query.mapper, resp), TRUE)

\* Mutant of Opt: opt prepares through the client on every call.
OptPreparingEachTime ==
    /\ query.live /\ issued < MaxPrepares
    /\ \E succeeds \in BOOLEAN, resp \in Responses :
         Terminal("opt", ClientPrepare(stmt, issued, succeeds), resp,
                  query_opt(query.mapper, resp), TRUE)

\* opt(self)
Opt ==
    /\ query.live /\ CanPrepare
    /\ \E succeeds \in BOOLEAN, resp \in Responses :
         Terminal("opt", StmtPrepare(stmt, issued, succeeds), resp,
                  query_opt(query.mapper, resp), TRUE)

\* all(self): iter, then collect.
All ==
    /\ query.live /\ CanPrepare
    /\ \E succeeds \in BOOLEAN, resp \in Responses :
         Terminal("all", StmtPrepare(stmt, issued, succeeds), resp,
                  collect(query.mapper, resp), TRUE)

\* iter(self): prepare, query_raw, and the lazy sequence over the rows.
Iter ==
    /\ query.live /\ CanPrepare
    /\ \E succeeds \in BOOLEAN, resp \in Responses :
         LET pr == StmtPrepare(stmt, issued, succeeds)
         IN  /\ stmt' = pr.stmt
             /\ issued' = pr.issued
             /\ io' = pr.io \cup (IF pr.ok THEN { "execute" } ELSE { })
             /\ result' = IF ~pr.ok THEN PrepareFailed
                          ELSE IF resp.refused THEN DbError
                          ELSE [st |-> "Ok", v |-> << >>, err |-> "none",
                                mapped |-> << >>]
             /\ stream' = IF pr.ok /\ ~resp.refused
                          THEN RowStream(query.mapper, resp)
                          ELSE NoStream
             /\ answer' = IF pr.ok THEN resp ELSE NoAnswer
    /\ query' = [query EXCEPT !.live = FALSE]
    /\ terminals' = terminals + 1
    /\ lastOp' = "iter"
    /\ UNCHANGED << hasRow, sqlFields, order >>
    /\ UNCHANGED << codecVars, genVars >>

\* One pull on the sequence iter returned.  When the extractor panics the
\* unwinding drops the sequence with its caller, or a caller that catches
\* it is left with the sequence past the row.
IterNext ==
    /\ stream.live
    /\ LET p == Pull(stream)
       IN  /\ result' = p.res
           /\ stream' \in IF p.res.st = "Abort"
                           THEN { p.stream, [p.stream EXCEPT !.live = FALSE] }
                           ELSE { p.stream }
           /\ io' = IF p.res.st = "End" THEN { } ELSE { "fetch" }
    /\ lastOp' = "next"
    /\ UNCHANGED << hasRow, sqlFields, order, stmt, issued, query, terminals,
                    answer >>
    /\ UNCHANGED << codecVars, genVars >>

NextQuery ==
    NewStmt \/ Bind \/ Params \/ Map \/ One \/ Opt \/ All \/ Iter \/ IterNext

SpecQuery == InitQuery /\ [][NextQuery]_vars

(***************************************************************************)
(* Properties of the emitted query.                                        *)
(***************************************************************************)
ServerOps == { "one", "opt", "all", "iter", "next" }
BindOps == { "bind", "params" }

\* C7: after bind or Params::params the value at SQL position p is the value
\* given for the declared field that the SQL text names at position p.
PositionalReordering ==
    lastOp \in BindOps
        => /\ Len(query.params) = Len(sqlFields)
           /\ \A p \in 1..Len(sqlFields) :
                query.params[p] = query.given[sqlFields[p]]

\* C8 as stated: bind and map send nothing to the server, for every query.
BindAndMapSendNothing ==
    lastOp \in BindOps \cup { "map" } => io = { }

\* C8 amended: bind and map of a query with a row shape send nothing; a
\* request is sent only by one, opt, all, iter (and the sequence iter
\* returned), or by bind of a query with no row shape.
OnlyTerminalsReachServer ==
    /\ (hasRow /\ lastOp \in BindOps \cup { "map" }) => io = { }
    /\ io # { } => \/ lastOp \in ServerOps
                   \/ ~hasRow /\ lastOp \in BindOps

\* Witness of C8: a builder rebound and mapped again after a terminal
\* operation prepared the statement.
OnlyTerminalsWitness ==
    /\ hasRow /\ lastOp = "map" /\ query.live
    /\ stmt.cached /\ issued = 1

\* C9 as stated: the server-side prepare is issued at most once through one
\* statement object.
PreparedAtMostOnce == issued <= 1

\* C9 amended: a prepare is issued only while the cache is empty, one at a
\* time, by an operation that reaches the server; once a handle is cached no
\* prepare is issued and the cache keeps it while the statement object lives;
\* a failed prepare leaves the cache empty; a new statement object starts
\* with an empty cache.
CacheStep ==
    /\ lastOp' = "new" => (~stmt'.cached /\ issued' = 0)
    /\ lastOp' # "new"
         => /\ stmt.cached => (stmt'.cached /\ issued' = issued
                                 /\ "prepare" \notin io')
            /\ issued' # issued
                 => /\ ~stmt.cached
                    /\ issued' = issued + 1
                    /\ "prepare" \in io'
                    /\ lastOp' \in ServerOps \cup BindOps
            /\ result' = PrepareFailed => ~stmt'.cached
            /\ (stmt'.cached /\ ~stmt.cached) => issued' = issued + 1

PreparedOnceCached == [][CacheStep]_vars

\* Witness of C9: a terminal operation that ran on the cached handle after a
\* prepare that failed and one that succeeded.
PreparedOnceWitness ==
    /\ stmt.cached /\ issued = 2
    /\ lastOp \in { "one", "opt", "all", "iter" }
    /\ "prepare" \notin io /\ "execute" \in io

\* C10: a builder takes one terminal operation: map and the terminal
\* operations need a live builder, a terminal operation leaves none, and
\* the sequence iter returned stays empty once exhausted.
SingleUseStep ==
    /\ lastOp' \in { "map", "one", "opt", "all", "iter" } => query.live
    /\ lastOp' \in { "one", "opt", "all", "iter" }
         => (~query'.live /\ terminals = 0)
    /\ (lastOp' = "next" /\ stream.live /\ stream.rest = << >> /\ ~stream.failing)
         => (stream' = stream /\ result'.st = "End")
    /\ (lastOp' \in BindOps /\ hasRow) => (query'.live /\ terminals' = 0)

SingleTerminal == [](terminals <= 1) /\ [][SingleUseStep]_vars

\* Witness of C10: the sequence of iter pulled once more after its last row.
SingleTerminalWitness ==
    /\ terminals = 1 /\ ~query.live
    /\ lastOp = "next" /\ stream.live /\ result.st = "End"

\* An answer that is a whole result set whose rows convert to the row shape.
Complete(resp) ==
    /\ ~resp.refused /\ ~resp.failing
    /\ \A i \in 1..Len(resp.rows) : Converts(resp.rows[i])

\* C11: one returns the mapped row exactly when the server returns one row
\* and a row-count error on no row and on two or more; opt returns the empty
\* result on no row, the mapped row on one row and a row-count error on two
\* or more, identical or not; the mapper runs in no error case.
OneOptCardinality ==
    (lastOp \in { "one", "opt" } /\ result.err # "prepare" /\ ~answer.refused)
        => LET n == Len(answer.rows)
               value == [st |-> "Ok",
                         v |-> << mapper(query.mapper, extractor(answer.rows[1])) >>,
                         err |-> "none", mapped |-> answer.rows]
               empty == [st |-> "Ok", v |-> << >>, err |-> "none",
                         mapped |-> << >>]
           IN  /\ (n = 1 /\ Complete(answer)) => result = value
               /\ (n = 0 /\ Complete(answer))
                    => result = (IF lastOp = "one" THEN RowCount ELSE empty)
               /\ n >= 2 => result = RowCount
               /\ (result.st = "Ok" /\ lastOp = "one")
                    => (n = 1 /\ result = value)
               /\ (result.st = "Ok" /\ lastOp = "opt")
                    => (n <= 1 /\ Len(result.v) = n)
               /\ result.st # "Ok" => result.mapped = << >>

\* Witness of C11: opt answered with two identical rows.
OneOptCardinalityWitness ==
    /\ lastOp = "opt" /\ result = RowCount
    /\ answer.rows = << 1, 1 >> /\ ~answer.failing

\* C12: a successful all returns, for the rows r1..rn of the answer, the
\* sequence whose k-th element is mapper(extractor(rk)); all succeeds on
\* every whole answer; and the sequence of iter over the same builder has
\* yielded, after k pulls, the first k of the same elements, the rows left
\* being rk+1..rn.
AllInServerOrder ==
    /\ (lastOp = "all" /\ result.st = "Ok")
         => /\ Len(result.v) = Len(answer.rows)
            /\ \A k \in 1..Len(answer.rows) :
                 result.v[k] = mapper(query.mapper, extractor(answer.rows[k]))
            /\ result.mapped = answer.rows
    /\ (lastOp = "all" /\ result.err # "prepare" /\ Complete(answer))
         => result.st = "Ok"
    /\ (stream.live /\ stream.failedAt = 0)
         => /\ stream.mapper = query.mapper
            /\ Len(stream.yielded) = stream.at
            /\ \A k \in 1..stream.at :
                 stream.yielded[k]
                     = mapper(query.mapper, extractor(answer.rows[k]))
            /\ stream.rest = SubSeq(answer.rows, stream.at + 1, Len(answer.rows))

\* Witness of C12: all over two different rows with a caller's mapper.
AllInServerOrderWitness ==
    /\ lastOp = "all" /\ result.st = "Ok"
    /\ answer.rows = << 2, 1 >> /\ query.mapper = "f"

\* C13: when row k of the sequence of iter does not decode, the pull that
\* meets it returns an error and every later pull returns nothing, and the
\* elements yielded are those of rows 1..k-1.
DecodeFailureStopsIteration ==
    (lastOp = "next" /\ stream.failedAt # 0)
        => /\ result.st \in { "Err", "End" }
           /\ Len(stream.yielded) = stream.failedAt - 1
           /\ \A k \in 1..(stream.failedAt - 1) :
                stream.yielded[k]
                    = mapper(stream.mapper, extractor(answer.rows[k]))

(***************************************************************************)
(* The generator: generate and the emission routines it calls, on one      *)
(* Preparation, in blocking and in non-blocking mode.                      *)
(***************************************************************************)
\* A type as it is written in the output: a name, the suffix the generator
\* adds to it, and whether it is wrapped in Option.
Ty(base, suffix) == [base |-> base, suffix |-> suffix, option |-> FALSE]
Optional(is_nullable, it) == [it EXCEPT !.option = is_nullable]

\* idx_char(idx): the name of the idx-th generic parameter.
idx_char(idx) == << "T1", "T2", "T3", "T4", "T5", "T6" >>[idx]

\* The runtime helper crate of a mode.
Client(is_async) == IF is_async THEN "cornucopia_async" ELSE "cornucopia_sync"

\* A text is the sequence of its characters; the double quote and the
\* backslash are written by name.
QUOTE == "QUOTE"
BACKSLASH == "BACKSLASH"

\* str::replace of a character by a string.
RECURSIVE replace(_, _, _)
replace(text, from, to) ==
    IF text = << >> THEN << >>
    ELSE (IF Head(text) = from THEN to ELSE << Head(text) >>)
            \o replace(Tail(text), from, to)

\* The literal gen_query_fn passes to Stmt::new:
\* `sql.replace('"', "\\\"")`, then `format!("\"{sql}\"")`.
stmt_sql(sql) ==
    << QUOTE >> \o replace(sql, QUOTE, << BACKSLASH, QUOTE >>) \o << QUOTE >>

\* The resolver's ergonomic-generic representation of a base type: for a
\* type that has one, the capability bound is recorded in traits and the
\* type is the generic parameter of that place; else the plain parameter
\* type.
TyParamErgoTy(base, is_async, traits) ==
    IF base \in { "text", "bytea" }
    THEN LET bound == [helper |-> Client(is_async),
                       cap |-> IF base = "text" THEN "StringSql" ELSE "BytesSql"]
             recorded == Append(traits, bound)
         IN  [ty |-> Ty(idx_char(Len(recorded)), ""), traits |-> recorded]
    ELSE [ty |-> Ty("i32", ""), traits |-> traits]

\* The resolver's owned and borrowed representations of a base type, and
\* the type its owning call gives.
TyOwnTy(base) == IF base = "text" THEN Ty("String", "") ELSE Ty("i32", "")
TyBrwTy(base) == IF base = "text" THEN Ty("&str", "") ELSE Ty("i32", "")
TyOwningCall(base) == TyOwnTy(base)

\* PreparedField::param_ergo_ty
param_ergo_ty(f, is_async, traits) ==
    LET it == TyParamErgoTy(f.ty, is_async, traits)
    IN  [ty |-> Optional(f.is_nullable, it.ty), traits |-> it.traits]

\* PreparedField::own_struct, brw_ty, owning_call
own_struct(f) == Optional(f.is_nullable, TyOwnTy(f.ty))
brw_ty(f) == Optional(f.is_nullable, TyBrwTy(f.ty))
owning_call(f) == Optional(f.is_nullable, TyOwningCall(f.ty))

\* `fields.iter().map(|p| p.param_ergo_ty(is_async, traits)).collect()`: the
\* types of the fields in the order given, and the traits pushed on the way.
RECURSIVE ErgoTys(_, _, _)
ErgoTys(fields, is_async, acc) ==
    IF fields = << >> THEN acc
    ELSE LET r == param_ergo_ty(Head(fields), is_async, acc.traits)
         IN  ErgoTys(Tail(fields), is_async,
                     [tys |-> Append(acc.tys, r.ty), traits |-> r.traits])

\* `#(#traits_idx: #traits),*`: one generic parameter per element of traits.
Generics(traits) ==
    [i \in 1..Len(traits) |->
        [name |-> idx_char(i), helper |-> traits[i].helper, cap |-> traits[i].cap]]

\* gen_params_struct: the struct of a named parameter shape.
gen_params_struct(params, is_async) ==
    IF params.is_named
    THEN LET c == ErgoTys(params.fields, is_async,
                          [tys |-> << >>, traits |-> << >>])
         IN  << [item |-> "params_struct",
                 name |-> Ty(params.name, ""),
                 generics |-> Generics(c.traits),
                 fields |-> [i \in 1..Len(params.fields) |->
                               [name |-> params.fields[i].name, ty |-> c.tys[i]]]] >>
    ELSE << >>

\* The mode tuple of gen_row_structs.
RowMode(is_async) ==
    IF is_async
    THEN [client_mut |-> "", fn_async |-> "async", fn_await |-> ".await",
          backend |-> "tokio_postgres", collect |-> "try_collect().await",
          raw_type |-> "futures::Stream", raw_pre |-> "",
          raw_post |-> ".into_stream()", client |-> "cornucopia_async"]
    ELSE [client_mut |-> "mut", fn_async |-> "", fn_await |-> "",
          backend |-> "postgres", collect |-> "collect()",
          raw_type |-> "Iterator", raw_pre |-> ".iterator()",
          raw_post |-> "", client |-> "cornucopia_sync"]

\* `row_struct` of gen_row_structs: what the extractor of the query struct
\* returns and its mapper takes.
row_struct(row) ==
    IF row.is_named
    THEN Ty(row.name, IF row.is_copy THEN "" ELSE "Borrowed")
    ELSE brw_ty(row.fields[1])

\* gen_row_structs: the owned struct of a named row, its borrowed dual and
\* the conversion when the row is not Copy, and the query struct with map
\* and the terminal operations.
gen_row_structs(row, is_async) ==
    LET md == RowMode(is_async)
        owned == [item |-> "struct", name |-> Ty(row.name, ""),
                  fields |-> [i \in 1..Len(row.fields) |->
                                [name |-> row.fields[i].name,
                                 ty |-> own_struct(row.fields[i])]]]
        borrowed == [item |-> "struct", name |-> Ty(row.name, "Borrowed"),
                     fields |-> [i \in 1..Len(row.fields) |->
                                   [name |-> row.fields[i].name,
                                    ty |-> brw_ty(row.fields[i])]]]
        from == [item |-> "impl", trait |-> "From",
                 arg |-> Ty(row.name, "Borrowed"), target |-> Ty(row.name, "")]
        built == [item |-> "query_struct", name |-> Ty(row.name, "Query"),
                  client_mut |-> md.client_mut, client |-> md.client,
                  backend |-> md.backend,
                  fn_async |-> md.fn_async, fn_await |-> md.fn_await,
                  collect |-> md.collect, raw_type |-> md.raw_type,
                  raw_pre |-> md.raw_pre, raw_post |-> md.raw_post,
                  extractor |-> [arg |-> Ty("Row", ""), ret |-> row_struct(row)],
                  mapper |-> [arg |-> row_struct(row), ret |-> "T"],
                  map |-> [arg |-> row_struct(row), ret |-> "R"],
                  one |-> [wrap |-> "", of |-> "T"],
                  all |-> [wrap |-> "Vec", of |-> "T"],
                  opt |-> [wrap |-> "Option", of |-> "T"],
                  iter |-> [wrap |-> "Item", of |-> "T"]]
    IN  (IF row.is_named
         THEN << owned >> \o (IF ~row.is_copy THEN << borrowed, from >> ELSE << >>)
         ELSE << >>)
        \o << built >>

\* The mode tuple of gen_query_fn.
QueryMode(is_async) ==
    IF is_async
    THEN [client_mut |-> "", fn_async |-> "async", fn_await |-> ".await",
          backend |-> "tokio_postgres", client |-> "cornucopia_async"]
    ELSE [client_mut |-> "mut", fn_async |-> "", fn_await |-> "",
          backend |-> "postgres", client |-> "cornucopia_sync"]

\* The mode tuple of the Params implementation of a query with no row.
ParamsMode(is_async) ==
    IF is_async
    THEN [send_sync |-> "+ Send + Sync",
          pre_ty |-> "std::pin::Pin<Box<dyn futures::Future<Output = Result",
          post_ty_lf |-> "> + Send + 'a>>",
          pre |-> "Box::pin(self", post |-> ")"]
    ELSE [send_sync |-> "", pre_ty |-> "Result", post_ty_lf |-> "",
          pre |-> "self", post |-> ""]

\* Mutant of row_struct_name: the type the extractor builds.
row_struct_name_staged(row) ==
    IF row.is_named
    THEN Ty(row.name, IF row.is_copy THEN "" ELSE "Borrowed")
    ELSE brw_ty(row.fields[1])

\* `row_struct_name` of gen_query_fn: the result type of the builder that
\* bind returns.
row_struct_name(row) ==
    IF row.is_named THEN Ty(row.name, "") ELSE own_struct(row.fields[1])

\* The type the emitted extractor builds: the struct it names for a named
\* row, and for a bare row the type `row.get(0)` is inferred to from the
\* extractor field of the query struct.
extractor_ty(row) ==
    IF row.is_named
    THEN Ty(row.name, IF row.is_copy THEN "" ELSE "Borrowed")
    ELSE row_struct(row)

\* The type the emitted mapper gives: `<Row>::from(it)` for a named row, the
\* owning call on `it` for a bare one.
mapper_ty(row) ==
    IF row.is_named THEN Ty(row.name, "") ELSE owning_call(row.fields[1])

\* `query_row_struct` of the Params implementation.
query_row_struct(row) ==
    IF row.is_named THEN Ty(row.name, "") ELSE own_struct(row.fields[1])

\* gen_query_fn: the statement constructor and struct, bind, and the Params
\* implementation when the parameter shape is a named struct.  q.row is
\* the index of the row shape, 0 for none.
gen_query_fn(module, q, is_async) ==
    LET md == QueryMode(is_async)
        pm == ParamsMode(is_async)
        param == module.params[q.param.idx]
        param_field == param.fields
        ord == q.param.order
        c == ErgoTys([p \in 1..Len(ord) |-> param_field[ord[p]]], is_async,
                     [tys |-> << >>, traits |-> << >>])
        params == [p \in 1..Len(ord) |->
                     [name |-> param_field[ord[p]].name, ty |-> c.tys[p]]]
        gens == Generics(c.traits)
        traits_idx == [i \in 1..Len(c.traits) |-> idx_char(i)]
        passed == [p \in 1..Len(ord) |-> param_field[params_name(ord)[p]].name]
        has_row == q.row # 0
        row == module.rows[q.row]
        statement == [item |-> "stmt", name |-> Ty(q.name, "Stmt"),
                      sql |-> stmt_sql(q.sql),
                      client |-> md.client]
        bound == IF has_row
                 THEN [item |-> "bind", generics |-> gens, params |-> params,
                       client_mut |-> md.client_mut,
                       ret |-> [query |-> Ty(row.name, "Query"),
                                T |-> row_struct_name(row),
                                N |-> Len(param_field)],
                       extractor |-> extractor_ty(row),
                       mapper |-> mapper_ty(row)]
                 ELSE [item |-> "bind_execute", generics |-> gens,
                       params |-> params, client_mut |-> md.client_mut,
                       fn_async |-> md.fn_async, fn_await |-> md.fn_await,
                       backend |-> md.backend]
        implemented ==
            IF has_row
            THEN [item |-> "params_impl", generics |-> gens,
                  client |-> md.client, client_mut |-> md.client_mut,
                  target |-> [name |-> Ty(param.name, ""), args |-> traits_idx],
                  ret |-> [query |-> Ty(row.name, "Query"),
                           T |-> query_row_struct(row),
                           N |-> Len(param_field)],
                  call |-> passed]
            ELSE [item |-> "params_impl_execute", generics |-> gens,
                  client |-> md.client, client_mut |-> md.client_mut,
                  backend |-> md.backend,
                  target |-> [name |-> Ty(param.name, ""), args |-> traits_idx],
                  send_sync |-> pm.send_sync, pre_ty |-> pm.pre_ty,
                  post_ty_lf |-> pm.post_ty_lf, pre |-> pm.pre, post |-> pm.post,
                  call |-> passed]
    IN  << statement, bound >>
        \o (IF param.is_named THEN << implemented >> ELSE << >>)

\* Mutant of struct_tosql_target: `Params` for is_params, `Borrowed` else.
struct_tosql_target_swapped(struct_name, is_borrow, is_params) ==
    IF is_borrow
    THEN (IF is_params THEN Ty(struct_name, "Params")
          ELSE Ty(struct_name, "Borrowed"))
    ELSE Ty(struct_name, "")

\* The type struct_tosql implements ToSql for.
struct_tosql_target(struct_name, is_borrow, is_params) ==
    IF is_borrow
    THEN (IF is_params THEN Ty(struct_name, "Borrowed")
          ELSE Ty(struct_name, "Params"))
    ELSE Ty(struct_name, "")

\* Mutant of struct_tosql: called with is_params and is_async exchanged.
struct_tosql_flags_swapped(struct_name, is_borrow, is_params, is_async) ==
    << [item |-> "impl", trait |-> "ToSql", client |-> Client(is_params),
        target |-> struct_tosql_target(struct_name, is_borrow, is_async)] >>

\* struct_tosql: the ToSql implementation; the mode names the helper crate
\* in the wrappers of its fields.
struct_tosql(struct_name, is_borrow, is_params, is_async) ==
    << [item |-> "impl", trait |-> "ToSql", client |-> Client(is_async),
        target |-> struct_tosql_target(struct_name, is_borrow, is_params)] >>

composite_fromsql(struct_name) ==
    << [item |-> "impl", trait |-> "FromSql",
        target |-> Ty(struct_name, "Borrowed")] >>

\* gen_custom_type: the items of one custom type.
gen_custom_type(prepared, is_async) ==
    LET struct_name == prepared.struct_name
    IN  IF prepared.content = "Enum"
        THEN << [item |-> "enum", name |-> Ty(struct_name, ""),
                 derives |-> { "ToSql", "FromSql", "Copy" }] >>
        ELSE << [item |-> "struct", name |-> Ty(struct_name, ""),
                 derives |-> { "FromSql" }
                             \cup (IF prepared.is_copy THEN { "Copy" } ELSE { })] >>
             \o (IF prepared.is_copy
                 THEN struct_tosql(struct_name, FALSE, prepared.is_params, is_async)
                 ELSE << [item |-> "struct", name |-> Ty(struct_name, "Borrowed"),
                          derives |-> { }],
                         [item |-> "impl", trait |-> "From",
                          arg |-> Ty(struct_name, "Borrowed"),
                          target |-> Ty(struct_name, "")] >>
                      \o composite_fromsql(struct_name)
                      \o (IF ~prepared.is_params
                          THEN << [item |-> "struct",
                                   name |-> Ty(struct_name, "Params"),
                                   derives |-> { }] >>
                          ELSE << >>)
                      \o struct_tosql(struct_name, TRUE, prepared.is_params, is_async))

\* The import preamble generate puts at the head of every queries module.
Import(is_async) ==
    IF is_async
    THEN "use futures::{StreamExt, TryStreamExt};use futures; use cornucopia_async::GenericClient;"
    ELSE "use postgres::{fallible_iterator::FallibleIterator,GenericClient};"

RECURSIVE Flatten(_)
Flatten(seqs) == IF seqs = << >> THEN << >> ELSE Head(seqs) \o Flatten(Tail(seqs))

\* The Preparations of a run: one custom type, or one module with one
\* parameter shape, at most one row shape and one query over them.
FieldNames == << "a", "b", "c", "d" >>
GenFieldKinds ==
    { [ty |-> "int4", is_nullable |-> FALSE], [ty |-> "text", is_nullable |-> FALSE],
      [ty |-> "bytea", is_nullable |-> FALSE], [ty |-> "text", is_nullable |-> TRUE] }

ParamItems ==
    UNION { { [name |-> "Params",
               fields |-> [i \in 1..n |->
                             [name |-> FieldNames[i], ty |-> k[i].ty,
                              is_nullable |-> k[i].is_nullable]],
               is_named |-> nm] : k \in [1..n -> GenFieldKinds], nm \in BOOLEAN }
            : n \in 1..MaxGenFields }

RowItems ==
    { [name |-> "Row",
       fields |-> << [name |-> "a", ty |-> t, is_nullable |-> FALSE] >>,
       is_named |-> nm, is_copy |-> (t = "int4")]
        : t \in { "int4", "text" }, nm \in BOOLEAN }

Modules ==
    UNION { { [params |-> << pi >>, rows |-> rs,
               queries |-> << [name |-> "Query", row |-> Len(rs),
                               sql |-> << "a" >>,
                               param |-> [idx |-> 1, order |-> o]] >>]
                : rs \in { << >> } \cup { << r >> : r \in RowItems },
                  o \in Perms(Len(pi.fields)) }
            : pi \in ParamItems }

CustomTypes ==
    { [struct_name |-> "Ct", name |-> "ct", content |-> "Enum",
       is_copy |-> TRUE, is_params |-> TRUE] }
    \cup { [struct_name |-> "Ct", name |-> "ct", content |-> "Composite",
            is_copy |-> cp, is_params |-> pa] : cp \in BOOLEAN, pa \in BOOLEAN }

Preparations ==
    { [types |-> << t >>, modules |-> << >>] : t \in CustomTypes }
    \cup { [types |-> << >>, modules |-> << m >>] : m \in Modules }

InitGen ==
    /\ decl = << >>
    /\ ty = [name |-> SourceName, kind |-> "Simple", fields |-> << >>]
    /\ CodecFresh
    /\ hasRow = TRUE
    /\ sqlFields = << >>
    /\ order = << >>
    /\ QueryFresh
    /\ ir \in Preparations
    /\ emitted = [is_async \in BOOLEAN |-> NoItems]
    /\ stage = [is_async \in BOOLEAN |-> "idle"]
    /\ cli = NoCli

\* One part of generate in one mode: the stage moves on and the items of
\* the part are written.
Emit(is_async, from, to, part, items) ==
    /\ stage[is_async] = from
    /\ stage[~is_async] \in { "idle", "queries" }
    /\ stage' = [stage EXCEPT ![is_async] = to]
    /\ emitted' = [emitted EXCEPT ![is_async][part] = items]
    /\ UNCHANGED << ir, cli >>
    /\ UNCHANGED << codecVars, queryVars >>

\* gen_type_modules: gen_custom_type for every custom type.
GenTypeModules ==
    \E is_async \in BOOLEAN :
        Emit(is_async, "idle", "types", "types",
             Flatten([i \in 1..Len(ir.types) |->
                        gen_custom_type(ir.types[i], is_async)]))

\* The head of each queries module and gen_params_struct for every
\* parameter shape.
GenParamsStructs ==
    \E is_async \in BOOLEAN :
        Emit(is_async, "types", "params", "params",
             Flatten([m \in 1..Len(ir.modules) |->
                << [item |-> "import", import |-> Import(is_async)] >>
                \o Flatten([i \in 1..Len(ir.modules[m].params) |->
                      gen_params_struct(ir.modules[m].params[i], is_async)])]))

\* gen_row_structs for every row shape.
GenRowStructs ==
    \E is_async \in BOOLEAN :
        Emit(is_async, "params", "rows", "rows",
             Flatten([m \in 1..Len(ir.modules) |->
                Flatten([i \in 1..Len(ir.modules[m].rows) |->
                      gen_row_structs(ir.modules[m].rows[i], is_async)])]))

\* gen_query_fn for every query.
GenQueryFns ==
    \E is_async \in BOOLEAN :
        Emit(is_async, "rows", "queries", "queries",
             Flatten([m \in 1..Len(ir.modules) |->
                Flatten([i \in 1..Len(ir.modules[m].queries) |->
                      gen_query_fn(ir.modules[m], ir.modules[m].queries[i],
                                   is_async)])]))

NextGen == GenTypeModules \/ GenParamsStructs \/ GenRowStructs \/ GenQueryFns

SpecGen == InitGen /\ [][NextGen]_vars

\* The SQL texts of a query: every text of at most MaxSqlLen characters
\* over two letters, the double quote and the backslash.
SqlChars == { "a", "n", QUOTE, BACKSLASH }
SqlTexts == UNION { [1..n -> SqlChars] : n \in 0..MaxSqlLen }

\* The Preparations with one query over one int4 parameter, and any SQL
\* text.
SqlPreparations ==
    { [types |-> << >>,
       modules |-> << [params |-> << [name |-> "Params",
                                      fields |-> << [name |-> "a", ty |-> "int4",
                                                     is_nullable |-> FALSE] >>,
                                      is_named |-> FALSE] >>,
                       rows |-> << >>,
                       queries |-> << [name |-> "Query", row |-> 0, sql |-> text,
                                       param |-> [idx |-> 1,
                                                  order |-> << 1 >>]] >>] >>]
        : text \in SqlTexts }

InitSql ==
    /\ decl = << >>
    /\ ty = [name |-> SourceName, kind |-> "Simple", fields |-> << >>]
    /\ CodecFresh
    /\ hasRow = TRUE
    /\ sqlFields = << >>
    /\ order = << >>
    /\ QueryFresh
    /\ ir \in SqlPreparations
    /\ emitted = [is_async \in BOOLEAN |-> NoItems]
    /\ stage = [is_async \in BOOLEAN |-> "idle"]
    /\ cli = NoCli

SpecSql == InitSql /\ [][NextGen]_vars

(***************************************************************************)
(* Properties of the generator.                                            *)
(***************************************************************************)
\* The items of one mode, in the order generate writes them.
Output(is_async) ==
    emitted[is_async].types \o emitted[is_async].params
        \o emitted[is_async].rows \o emitted[is_async].queries

ItemsOf(items, kinds) ==
    { items[i] : i \in { j \in DOMAIN items : items[j].item \in kinds } }
TheItem(items, kinds) == CHOOSE x \in ItemsOf(items, kinds) : TRUE

\* generate has run to its end in this mode.
Generated(is_async) == stage[is_async] = "queries"
HasModule == ir.modules # << >>
HasRowShape == HasModule /\ ir.modules[1].rows # << >>

\* A type that borrows from the row: the Borrowed dual of a struct, or the
\* borrowed representation of a base type.
IsBorrowedTy(t) == t.suffix = "Borrowed" \/ t.base = "&str"

\* C14: for a query with a row shape the builder bind returns has the owned
\* row type as its result type T and a default mapper from the type the
\* extractor stages to that owned type; one, opt, all and iter return T; no
\* borrowed type is the result type of bind or of a terminal operation.
OwnedResultType ==
    \A is_async \in BOOLEAN :
        (Generated(is_async) /\ HasRowShape)
            => LET row == ir.modules[1].rows[1]
                   b == TheItem(emitted[is_async].queries, { "bind" })
                   qs == TheItem(emitted[is_async].rows, { "query_struct" })
               IN  /\ ~IsBorrowedTy(b.ret.T)
                   /\ row.is_named => b.ret.T = Ty(row.name, "")
                   /\ b.ret.query = qs.name
                   /\ b.mapper = b.ret.T
                   /\ b.extractor = qs.extractor.ret
                   /\ qs.mapper = [arg |-> qs.extractor.ret, ret |-> "T"]
                   /\ \A op \in { "one", "opt", "all", "iter" } : qs[op].of = "T"
                   /\ (row.is_named /\ ~row.is_copy)
                        => /\ b.extractor = Ty(row.name, "Borrowed")
                           /\ [item |-> "impl", trait |-> "From",
                                arg |-> b.extractor, target |-> b.ret.T]
                                  \in ItemsOf(emitted[is_async].rows, { "impl" })

\* Witness of C14: the query over a named row that is not Copy, generated.
OwnedResultTypeWitness ==
    /\ Generated(TRUE) /\ HasRowShape
    /\ ir.modules[1].rows[1].is_named /\ ~ir.modules[1].rows[1].is_copy

\* The capability bound a field's type asks of its generic parameter.
Cap(f) ==
    IF f.ty = "text" THEN "StringSql"
    ELSE IF f.ty = "bytea" THEN "BytesSql" ELSE "none"

RECURSIVE Dedup(_, _)
Dedup(seq, seen) ==
    IF seq = << >> THEN << >>
    ELSE IF Head(seq) \in seen THEN Dedup(Tail(seq), seen)
    ELSE << Head(seq) >> \o Dedup(Tail(seq), seen \cup { Head(seq) })

\* The bounds collected over fields, duplicates removed, first appearance
\* first.
DistinctBounds(fields) ==
    Dedup(SelectSeq([i \in 1..Len(fields) |-> Cap(fields[i])],
                    LAMBDA c : c # "none"), { })

Caps(generics) == [i \in 1..Len(generics) |-> generics[i].cap]

\* C15: the generic parameters of the params struct and of bind are
\* T1..Tn for the n distinct bounds of the fields, in first-appearance
\* order.
GenericsDeduplicated ==
    \A is_async \in BOOLEAN :
        (Generated(is_async) /\ HasModule)
            => LET param == ir.modules[1].params[1]
                   ord == ir.modules[1].queries[1].param.order
                   b == TheItem(emitted[is_async].queries,
                                { "bind", "bind_execute" })
                   inSql == [p \in 1..Len(ord) |-> param.fields[ord[p]]]
               IN  /\ Caps(b.generics) = DistinctBounds(inSql)
                   /\ \A i \in 1..Len(b.generics) :
                        b.generics[i].name = idx_char(i)
                   /\ param.is_named
                        => LET st == TheItem(emitted[is_async].params,
                                             { "params_struct" })
                           IN  Caps(st.generics) = DistinctBounds(param.fields)

\* The type of the field called n among named, typed entries.
TyOfField(entries, n) ==
    (CHOOSE e \in { entries[i] : i \in DOMAIN entries } : e.name = n).ty

\* C19: for a query whose parameter shape is a named struct, the generic
\* parameters of bind and of the Params implementation give every Ti the
\* bound the params struct gives it, and every field the Ti it has in the
\* struct, whatever the reordering table.
GenericsConsistent ==
    \A is_async \in BOOLEAN :
        (Generated(is_async) /\ HasModule /\ ir.modules[1].params[1].is_named)
            => LET st == TheItem(emitted[is_async].params, { "params_struct" })
                   b == TheItem(emitted[is_async].queries,
                                { "bind", "bind_execute" })
                   im == TheItem(emitted[is_async].queries,
                                 { "params_impl", "params_impl_execute" })
               IN  /\ im.generics = b.generics
                   /\ im.generics = st.generics
                   /\ \A p \in 1..Len(b.params) :
                        b.params[p].ty = TyOfField(st.fields, b.params[p].name)

\* What the two modes may write differently: the mutability of the client,
\* the suspension points, the lazy sequence of iter, and the crates named
\* (runtime helper, driver, import preamble).
ModeKeys ==
    { "client_mut", "fn_async", "fn_await", "collect", "raw_type", "raw_pre",
      "raw_post", "client", "backend", "import" }

\* The bound on the client and the wrappers of the result and of the call
\* in the Params implementation of a query with no row shape.
ExecuteParamsKeys == { "send_sync", "pre_ty", "post_ty_lf", "pre", "post" }

\* An item with the parts named in keys, and the helper crate in the path of
\* its bounds, blanked.
Erase(x, keys) ==
    [k \in DOMAIN x |->
        IF k \in keys THEN "_"
        ELSE IF k = "generics"
        THEN [i \in DOMAIN x[k] |-> [x[k][i] EXCEPT !.helper = "_"]]
        ELSE x[k]]

\* The two outputs hold the same items in the same order, equal but for the
\* parts named in keys.
SameUpTo(keys) ==
    /\ Len(Output(TRUE)) = Len(Output(FALSE))
    /\ \A i \in 1..Len(Output(TRUE)) :
         Erase(Output(TRUE)[i], keys) = Erase(Output(FALSE)[i], keys)

\* C16 as stated: the outputs of the two modes differ in nothing but the
\* mode's parts.
ModesDifferOnlyInModeParts ==
    (Generated(TRUE) /\ Generated(FALSE)) => SameUpTo(ModeKeys)

\* C16 amended: they differ in nothing but the mode's parts and, in the
\* Params implementation of a query with a named parameter shape and no row
\* shape, the Send + Sync bound on the client and the pinned, boxed future
\* around the result and the call of bind.
ModesDifferInModePartsAndExecuteParams ==
    (Generated(TRUE) /\ Generated(FALSE))
        => /\ SameUpTo(ModeKeys \cup ExecuteParamsKeys)
           /\ \A i \in 1..Len(Output(TRUE)) :
                Output(TRUE)[i].item # "params_impl_execute"
                    => Erase(Output(TRUE)[i], ModeKeys)
                         = Erase(Output(FALSE)[i], ModeKeys)

\* Witness of C16: both modes generated for a query with a named parameter
\* shape, generic fields and no row shape.
ModesWitness ==
    /\ Generated(TRUE) /\ Generated(FALSE) /\ HasModule /\ ~HasRowShape
    /\ ir.modules[1].params[1].is_named
    /\ Len(TheItem(emitted[TRUE].queries, { "bind_execute" }).generics) = 2

\* C20: for a composite custom type every implementation is for a struct
\* emitted with it; ToSql is implemented once: on the owned struct when
\* is_copy, on the Borrowed struct when not is_copy and is_params, on the
\* Params struct when neither; the Params struct is emitted exactly when
\* neither flag is set; the Borrowed struct, its FromSql and its conversion
\* to the owned struct exactly when not is_copy.
CustomTypeItems ==
    \A is_async \in BOOLEAN :
        (/\ stage[is_async] # "idle"
         /\ ir.types # << >>
         /\ ir.types[1].content = "Composite")
            => LET t == ir.types[1]
                   items == emitted[is_async].types
                   structs == { x.name : x \in ItemsOf(items, { "struct" }) }
                   impls == ItemsOf(items, { "impl" })
                   Impl(trait, target) ==
                       { i \in DOMAIN items :
                           /\ items[i].item = "impl"
                           /\ items[i].trait = trait
                           /\ items[i].target = target }
                   encoded == IF t.is_copy THEN Ty(t.struct_name, "")
                              ELSE IF t.is_params THEN Ty(t.struct_name, "Borrowed")
                              ELSE Ty(t.struct_name, "Params")
               IN  /\ Ty(t.struct_name, "") \in structs
                   /\ \A x \in impls : x.target \in structs
                   /\ \A x \in impls : x.trait = "From" => x.arg \in structs
                   /\ Cardinality({ i \in DOMAIN items :
                                      /\ items[i].item = "impl"
                                      /\ items[i].trait = "ToSql" }) = 1
                   /\ Cardinality(Impl("ToSql", encoded)) = 1
                   /\ Ty(t.struct_name, "Params") \in structs
                        <=> (~t.is_copy /\ ~t.is_params)
                   /\ Ty(t.struct_name, "Borrowed") \in structs <=> ~t.is_copy
                   /\ Cardinality(Impl("FromSql", Ty(t.struct_name, "Borrowed")))
                        = (IF t.is_copy THEN 0 ELSE 1)
                   /\ Cardinality(Impl("From", Ty(t.struct_name, "")))
                        = (IF t.is_copy THEN 0 ELSE 1)
                   /\ Len(items) = Cardinality(structs) + Cardinality(impls)

\* Witness of C20: a composite type that is neither Copy nor usable as its
\* own parameter shape, generated.
CustomTypeItemsWitness ==
    /\ stage[FALSE] # "idle" /\ ir.types # << >>
    /\ ir.types[1].content = "Composite"
    /\ ~ir.types[1].is_copy /\ ~ir.types[1].is_params

\* What an escape of a string literal stands for.
Unescaped(e) == IF e = "n" THEN "NEWLINE" ELSE e

\* The text a string literal denotes, read from behind its opening quote:
\* a backslash takes the next character as an escape (quote, backslash and
\* n are escapes, a is not), a bare quote closes the literal, and nothing
\* may follow it.
RECURSIVE ReadBody(_)
ReadBody(rest) ==
    IF rest = << >> THEN [ok |-> FALSE, text |-> << >>]
    ELSE IF Head(rest) = QUOTE
    THEN [ok |-> Tail(rest) = << >>, text |-> << >>]
    ELSE IF Head(rest) = BACKSLASH
    THEN IF Len(rest) < 2 \/ rest[2] \notin { QUOTE, BACKSLASH, "n" }
         THEN [ok |-> FALSE, text |-> << >>]
         ELSE LET r == ReadBody(SubSeq(rest, 3, Len(rest)))
              IN  [ok |-> r.ok, text |-> << Unescaped(rest[2]) >> \o r.text]
    ELSE LET r == ReadBody(Tail(rest))
         IN  [ok |-> r.ok, text |-> << Head(rest) >> \o r.text]

ReadLiteral(lit) ==
    IF lit = << >> \/ Head(lit) # QUOTE THEN [ok |-> FALSE, text |-> << >>]
    ELSE ReadBody(Tail(lit))

\* C21: the literal emitted into the statement constructor is one string
\* literal, and read back it is the SQL text of the query, character for
\* character.
SqlLiteralRoundTrip ==
    \A is_async \in BOOLEAN :
        (Generated(is_async) /\ HasModule)
            => LET st == TheItem(emitted[is_async].queries, { "stmt" })
                   r == ReadLiteral(st.sql)
               IN  r.ok /\ r.text = ir.modules[1].queries[1].sql

(***************************************************************************)
(* The command line: run() loads the configuration, builds the settings    *)
(* and starts the generation.                                              *)
(***************************************************************************)
default_config_path == "cornucopia.toml"

\* The runs: the --config path (the default when not given), what is at that
\* path, the mode flags and the subcommand.
CliRuns ==
    { [pc |-> "args", path |-> pa, file |-> f, sync |-> sy, async |-> as,
       action |-> ac, config |-> "none", error |-> "none",
       gen_async |-> FALSE, gen_sync |-> FALSE,
       reads |-> 0, generating |-> FALSE, cleaned |-> FALSE]
        : pa \in { default_config_path, "./cornucopia.toml", "conf/other.toml" },
          f \in { "missing", "unparseable", "valid" },
          sy \in BOOLEAN, as \in BOOLEAN, ac \in { "Live", "Schema" } }

\* Mutant of read_config: a configuration that cannot be used is replaced by
\* the default one, whatever the path.
read_config_lenient(path, file) ==
    IF file = "valid" THEN [config |-> "file", error |-> "none"]
    ELSE [config |-> "default", error |-> "none"]

\* The match on fs::read_to_string and toml::from_str: the configuration, or
\* the error run() returns.
read_config(path, file) ==
    IF file # "missing"
    THEN (IF file = "valid" THEN [config |-> "file", error |-> "none"]
          ELSE [config |-> "none", error |-> "ConfigContents"])
    ELSE IF path # default_config_path
    THEN [config |-> "none", error |-> "MissingConfig"]
    ELSE [config |-> "default", error |-> "none"]

InitCli ==
    /\ decl = << >>
    /\ ty = [name |-> SourceName, kind |-> "Simple", fields |-> << >>]
    /\ CodecFresh
    /\ hasRow = TRUE
    /\ sqlFields = << >>
    /\ order = << >>
    /\ QueryFresh
    /\ ir = NoIr
    /\ emitted = [is_async \in BOOLEAN |-> NoItems]
    /\ stage = [is_async \in BOOLEAN |-> "idle"]
    /\ cli \in CliRuns

\* run(), up to the configuration: one read of the file; an error ends the
\* run.
LoadConfig ==
    /\ cli.pc = "args"
    /\ LET r == read_config(cli.path, cli.file)
       IN  cli' = [cli EXCEPT !.reads = @ + 1,
                              !.config = r.config,
                              !.error = r.error,
                              !.pc = IF r.error = "none" THEN "configured"
                                     ELSE "failed"]
    /\ UNCHANGED << ir, emitted, stage >>
    /\ UNCHANGED << codecVars, queryVars >>

\* `let settings = CodegenSettings { .. }`
BuildSettings ==
    /\ cli.pc = "configured"
    /\ cli' = [cli EXCEPT !.gen_async = cli.async \/ ~cli.sync,
                          !.gen_sync = cli.sync,
                          !.pc = "settings"]
    /\ UNCHANGED << ir, emitted, stage >>
    /\ UNCHANGED << codecVars, queryVars >>

\* `match action`: Live connects and generates; Schema generates against a
\* managed container and cleans it up when the generation fails.
RunAction ==
    /\ cli.pc = "settings"
    /\ \E connects \in BOOLEAN, generates \in BOOLEAN :
         cli' = IF cli.action = "Live"
                THEN IF ~connects
                     THEN [cli EXCEPT !.pc = "failed", !.error = "Internal"]
                     ELSE [cli EXCEPT !.generating = TRUE,
                                      !.pc = IF generates THEN "done" ELSE "failed",
                                      !.error = IF generates THEN "none"
                                                ELSE "Internal"]
                ELSE [cli EXCEPT !.generating = TRUE,
                                 !.cleaned = ~generates,
                                 !.pc = IF generates THEN "done" ELSE "failed",
                                 !.error = IF generates THEN "none" ELSE "Internal"]
    /\ UNCHANGED << ir, emitted, stage >>
    /\ UNCHANGED << codecVars, queryVars >>

NextCli == LoadConfig \/ BuildSettings \/ RunAction

SpecCli == InitCli /\ [][NextCli]_vars

ConfigErrors == { "MissingConfig", "ConfigContents" }

\* The run has ended with a configuration error: one read, no settings, no
\* configuration in use, no generation started.
EndedWithConfigError ==
    /\ cli.pc = "failed" /\ cli.error \in ConfigErrors
    /\ cli.config = "none" /\ ~cli.generating /\ cli.reads = 1

\* C17 as stated: for every path, the default one too, a missing or
\* unparseable configuration file ends the run with a configuration error.
ConfigErrorIsFatal ==
    (cli.pc # "args" /\ cli.file \in { "missing", "unparseable" })
        => EndedWithConfigError

\* C17 amended: an unparseable file at any path, and a missing file at any
\* path but the default one, ends the run with a configuration error; with
\* no file at the default path the run goes on with the default
\* configuration; the file is read once in every run.
ConfigErrorIsFatalButDefault ==
    cli.pc # "args"
        => /\ cli.reads = 1
           /\ (\/ cli.file = "unparseable"
               \/ cli.file = "missing" /\ cli.path # default_config_path)
                => (/\ EndedWithConfigError
                    /\ cli.error = IF cli.file = "missing" THEN "MissingConfig"
                                   ELSE "ConfigContents")
           /\ (cli.file = "missing" /\ cli.path = default_config_path)
                => (cli.config = "default" /\ cli.error \notin ConfigErrors)
           /\ cli.file = "valid"
                => (cli.config = "file" /\ cli.error \notin ConfigErrors)

\* Witness of C17: a generation started with no file at the default path.
ConfigDefaultWitness ==
    /\ cli.pc = "done" /\ cli.generating
    /\ cli.file = "missing" /\ cli.path = default_config_path

====
